---- MODULE Spec2Model ----
(***************************************************************************)
(* A model of calculateM: the pair-distance graph builder (utils.py:       *)
(* getFreeNeighbours, aStarSearch, getDist, convertToGraph, omitFromGrid)  *)
(* and the budgeted search over object-visit sequences (getMScores).       *)
(*                                                                         *)
(* Conventions.  A grid is a Python list of columns: grid[x][y].  Python   *)
(* lists are 0-based and accept negative indices; TLA+ sequences are       *)
(* 1-based, so every list access goes through PyIndexOk / PyAt.  A tile    *)
(* token is the sequence of its characters (<<"S","D","2">> is the text    *)
(* SD2).  Quantities that may reach MAXDIST = 10e9 are kept as a pair      *)
(* (e10, u) standing for e10 * 10^10 + u, because 10^10 is beyond the      *)
(* integers TLC computes with.                                             *)
(***************************************************************************)
EXTENDS Integers, Sequences, FiniteSets, TLC

VARIABLES
    grid,          \* getMScores: the grid argument (list of columns of tokens)
    defaultLimit,  \* getMScores: the defaultLimit argument
    pc,            \* position in the operation under way
    initialGraph,  \* getMScores: initialGraph
    graphs,        \* getMScores: graphs, keyed by frozenset of visited objects
    q,             \* getMScores: the FIFO queue of DLSNodes
    mScores,       \* getMScores: mScores
    binGrid,       \* aStarSearch: the binGrid argument
    start,         \* aStarSearch: the start argument
    end,           \* aStarSearch: the end argument
    astar,         \* aStarSearch: its locals (pq, visited) and what it returned
    trial,         \* createGrid: a trial button placement and its two tables
    numButtons,    \* createGrid: the buttons still to place
    cacheLog,      \* getMScores: per visited set, the convertToGraph builds made
                   \* for it and the visiting orders of the nodes that asked for it
    fileEpLen,     \* generateGrids: the epLen saved with a grid
    file,          \* the text of a grid file
    parsed,        \* parseEnv: what it returned
    pruned         \* a search rerun without a dominated node

vars == <<grid, defaultLimit, pc, initialGraph, graphs, q, mScores,
          binGrid, start, end, astar, trial, numButtons, cacheLog, fileEpLen, file,
          parsed, pruned>>

\* Python's None, where a variable holds None or a list, tuple or dict
None == <<>>

----------------------------------------------------------------------------
(* Python lists                                                            *)

\* lst[i] raises IndexError unless -len(lst) <= i < len(lst)
PyIndexOk(lst, i) == (i >= 0 - Len(lst)) /\ (i < Len(lst))

\* lst[i] for an index that does not raise: a negative i counts from the end
PyAt(lst, i) == IF i >= 0 THEN lst[i + 1] ELSE lst[Len(lst) + i + 1]

\* lst with lst[i] = v, for 0 <= i < len(lst)
PySet(lst, i, v) == [lst EXCEPT ![i + 1] = v]

Last(s) == s[Len(s)]

InSeq(e, s) == \E i \in 1..Len(s) : s[i] = e

Abs(n) == IF n < 0 THEN 0 - n ELSE n

\* the element of a one-element set; {F(x) : x \in {e}} computes e once and
\* hands its value to F
TheOnly(S) == CHOOSE r \in S : TRUE

----------------------------------------------------------------------------
(* Quantities up to and beyond MAXDIST                                     *)

\* the integer n (small) as a quantity
Num(n) == [e10 |-> 0, u |-> n]

\* utils.py:11  MAXDIST = 10e9
MAXDIST == [e10 |-> 1, u |-> 0]

NumAdd(a, b) == [e10 |-> a.e10 + b.e10, u |-> a.u + b.u]

NumSub(a, b) == [e10 |-> a.e10 - b.e10, u |-> a.u - b.u]

\* a > b, for quantities whose u parts stay far below 10^10
NumGt(a, b) == (a.e10 > b.e10) \/ (a.e10 = b.e10 /\ a.u > b.u)

----------------------------------------------------------------------------
(* PathFinder: getManhattanDist, getFreeNeighbours, aStarSearch            *)

getManhattanDist(s, e) == Abs(e[1] - s[1]) + Abs(e[2] - s[2])

\* A neighbour is kept when grid[nx][ny] does not raise IndexError and is 0.
getFreeNeighbours(tile, bgrid) ==
    LET cand == << <<tile[1], tile[2] - 1>>, <<tile[1] + 1, tile[2]>>,
                   <<tile[1], tile[2] + 1>>, <<tile[1] - 1, tile[2]>> >>
        free(n) == /\ PyIndexOk(bgrid, n[1])
                   /\ PyIndexOk(PyAt(bgrid, n[1]), n[2])
                   /\ PyAt(PyAt(bgrid, n[1]), n[2]) = 0
    IN  SelectSeq(cand, free)

\* AStarNode(parent, loc, g, h): the parent chain is kept as the path of
\* locations from the start to loc.
AStarNode(parentPath, loc, g, h) == [path |-> Append(parentPath, loc), g |-> g, h |-> h]

NodeLoc(node) == Last(node.path)

\* the nodes heapq.heappop may return: those of least f = g + h
PopChoices(pq) == {n \in pq : \A m \in pq : n.g + n.h <= m.g + m.h}

\* aStarSearch before its loop
aStarStart(s, e) ==
    [pq |-> {AStarNode(<<>>, s, 0, getManhattanDist(s, e))}, visited |-> {}, ret |-> None]

\* one iteration of the main search loop with currentNode popped
aStarIter(st, currentNode, e, bgrid) ==
    LET loc     == NodeLoc(currentNode)
        visited == st.visited \cup {loc}
        rest    == st.pq \ {currentNode}
    IN  IF loc = e
        THEN [pq |-> rest, visited |-> visited,
              ret |-> <<Num(currentNode.g), currentNode.path>>]
        ELSE LET neighbours == getFreeNeighbours(loc, bgrid)
                 fresh == {neighbours[i] : i \in {j \in 1..Len(neighbours) :
                                                     neighbours[j] \notin visited}}
             IN  [pq |-> rest \cup {AStarNode(currentNode.path, n, currentNode.g + 1,
                                              getManhattanDist(n, e)) : n \in fresh},
                  visited |-> visited, ret |-> None]

\* the queue ran empty: no path found
aStarNoPath(st) == [st EXCEPT !.ret = <<MAXDIST, <<>> >>]

RECURSIVE aStarLoop(_, _, _)
aStarLoop(st, e, bgrid) ==
    IF st.ret # None THEN st.ret
    ELSE IF st.pq = {} THEN aStarNoPath(st).ret
    ELSE TheOnly({ aStarLoop(next, e, bgrid) :
                     next \in {aStarIter(st, CHOOSE n \in PopChoices(st.pq) : TRUE, e, bgrid)} })

\* (distance, path) as returned with heuristicFn = getManhattanDist
aStarSearch(s, e, bgrid) == aStarLoop(aStarStart(s, e), e, bgrid)

----------------------------------------------------------------------------
(* GridModel: tile tokens, Object, findAll                                 *)

\* the target identifiers of findAll
IdA  == <<"A">>
IdC  == <<"C">>
IdSD == <<"S", "D">>

\* the tile tokens that are not objects
EmptyTile == <<".">>
WallTile  == <<"#">>

\* re.match(f"^{target}", tile): tile begins with target
StartsWith(tile, target) ==
    /\ Len(tile) >= Len(target)
    /\ SubSeq(tile, 1, Len(target)) = target

\* re.sub(f"{target}", "", tile): tile without the occurrences of target
RECURSIVE RemoveAll(_, _)
RemoveAll(tile, target) ==
    IF tile = <<>> THEN <<>>
    ELSE IF StartsWith(tile, target)
         THEN RemoveAll(SubSeq(tile, Len(target) + 1, Len(tile)), target)
         ELSE <<tile[1]>> \o RemoveAll(Tail(tile), target)

DigitVal(c) == CASE c = "0" -> 0 [] c = "1" -> 1 [] c = "2" -> 2 [] c = "3" -> 3
                 [] c = "4" -> 4 [] c = "5" -> 5 [] c = "6" -> 6 [] c = "7" -> 7
                 [] c = "8" -> 8 [] c = "9" -> 9

\* int(value) for a string of decimal digits
RECURSIVE ParseInt(_)
ParseInt(digits) ==
    IF Len(digits) = 1 THEN DigitVal(digits[1])
    ELSE 10 * ParseInt(SubSeq(digits, 1, Len(digits) - 1)) + DigitVal(digits[Len(digits)])

\* Object(identifier, x, y, value); two Objects with equal fields are equal
Object(identifier, x, y, value) ==
    [identifier |-> identifier, x |-> x, y |-> y, value |-> value]

\* Object.loc()
ObjLoc(obj) == <<obj.x, obj.y>>

\* the inner loop of findAll over the tiles y, y+1, ... of column x
RECURSIVE findInCol(_, _, _, _)
findInCol(target, col, x, y) ==
    IF y >= Len(col) THEN <<>>
    ELSE LET tile == PyAt(col, y)
             here == IF StartsWith(tile, target)
                     THEN LET value == RemoveAll(tile, target)
                          IN  <<Object(target, x, y,
                                       IF value = <<>> THEN 0 ELSE ParseInt(value))>>
                     ELSE <<>>
         IN  here \o findInCol(target, col, x, y + 1)

RECURSIVE findFromCol(_, _, _)
findFromCol(target, g, x) ==
    IF x >= Len(g) THEN <<>>
    ELSE findInCol(target, PyAt(g, x), x, 0) \o findFromCol(target, g, x + 1)

findAll(target, g) == findFromCol(target, g, 0)

----------------------------------------------------------------------------
(* ObjectGraph: getDist, convertToGraph, omitFromGrid                      *)

\* the binary grid of getDist with the walls only blocked
getDistBinGridWallsOnly(s, e, g) ==
    [x \in 1..Len(g) |-> [y \in 1..Len(g[x]) |-> IF g[x][y] = <<"#">> THEN 1 ELSE 0]]

\* the binary grid of getDist: 0 for "." and "A" and for the two end points
getDistBinGrid(s, e, g) ==
    LET bin0 == [x \in 1..Len(g) |->
                    [y \in 1..Len(g[x]) |->
                        IF g[x][y] = EmptyTile \/ g[x][y] = IdA THEN 0 ELSE 1]]
        bin1 == PySet(bin0, s[1], PySet(PyAt(bin0, s[1]), s[2], 0))
    IN  PySet(bin1, e[1], PySet(PyAt(bin1, e[1]), e[2], 0))

getDist(s, e, g) ==
    TheOnly({ aStarSearch(s, e, bgrid)[1] : bgrid \in {getDistBinGrid(s, e, g)} })

\* nonObstacles of convertToGraph and of getMScores
nonObstaclesOf(g) == findAll(IdA, g) \o findAll(IdC, g) \o findAll(IdSD, g)

SeqIndex(s, e) == CHOOSE i \in 1..Len(s) : s[i] = e

SeqSet(s) == {s[i] : i \in 1..Len(s)}

\* convertToGraph without "adjMatrix[target][source] = dist"
convertToGraphOneWay(g) ==
    LET nonObstacles == findAll(<<"A">>, g) \o findAll(<<"C">>, g) \o findAll(<<"S", "D">>, g)
    IN  [source \in SeqSet(nonObstacles) |-> [target \in SeqSet(nonObstacles) |->
            IF SeqIndex(nonObstacles, source) < SeqIndex(nonObstacles, target)
            THEN getDist(ObjLoc(source), ObjLoc(target), g)
            ELSE [e10 |-> 0, u |-> 0]]]

\* adjMatrix: 0 on the diagonal, getDist(source, target) for source listed
\* before target, stored both ways
convertToGraph(g) ==
    LET nonObstacles == nonObstaclesOf(g)
        n == Len(nonObstacles)
        dist == [i \in 1..n |-> [j \in 1..n |->
                    IF i < j THEN getDist(ObjLoc(nonObstacles[i]), ObjLoc(nonObstacles[j]), g)
                    ELSE Num(0)]]
    IN  [source \in SeqSet(nonObstacles) |-> [target \in SeqSet(nonObstacles) |->
            LET i == SeqIndex(nonObstacles, source)
                j == SeqIndex(nonObstacles, target)
            IN  IF i < j THEN dist[i][j] ELSE IF j < i THEN dist[j][i] ELSE Num(0)]]

\* every order in which "for obj in visited" may run over the frozenset
Orders(visited) ==
    {order \in [1..Cardinality(visited) -> visited] :
        \A i, j \in 1..Cardinality(visited) : order[i] = order[j] => i = j}

\* the loop of omitFromGrid leaving it after the first object
omitLoopFirstOnly(alteredGrid, order) ==
    IF order = <<>> THEN alteredGrid
    ELSE PySet(alteredGrid, order[1].x,
               PySet(PyAt(alteredGrid, order[1].x), order[1].y, <<".">>))

\* the loop of omitFromGrid (utils.py:284-286) over the objects in the order
\* given
RECURSIVE omitLoop(_, _)
omitLoop(alteredGrid, order) ==
    IF order = <<>> THEN alteredGrid
    ELSE omitLoop(PySet(alteredGrid, order[1].x,
                        PySet(PyAt(alteredGrid, order[1].x), order[1].y, EmptyTile)),
                  Tail(order))

\* what omitFromGrid returns when the frozenset is iterated in the order given
omitFromGridIn(g, order) == omitLoop(g, order)

\* the caller's grid after omitFromGrid, had it written to the grid itself
omitFromGridBaseAliased(g, order) == omitLoop(g, order)

\* the caller's grid after omitFromGrid: the writes go to the deep copy made
\* at utils.py:281
omitFromGridBase(g, order) == g

\* a copy of the grid with "." at the place of every visited object
omitFromGrid(g, visited) ==
    [x \in 1..Len(g) |-> [y \in 1..Len(g[x]) |->
        IF \E obj \in visited : obj.x = x - 1 /\ obj.y = y - 1 THEN EmptyTile ELSE g[x][y]]]

----------------------------------------------------------------------------
(* ScoreSearch: DLSNode and getMScores                                     *)

\* DLSNode(parent, obj, cost, budget, score): the parent chain is kept as the
\* path of objects from the root to obj.
DLSNode(parentPath, obj, cost, budget, score) ==
    [path |-> Append(parentPath, obj), cost |-> cost, budget |-> budget, score |-> score]

\* DLSNode.obj
NodeObj(node) == Last(node.path)

\* DLSNode.getPath()
getPath(node) == node.path

\* DLSNode.getTrajLen()
getTrajLen(node) == NumAdd(node.cost, node.budget)

\* DLSNode.getVisited(): the objects of the path before the current one
getVisited(node) == {node.path[i] : i \in 1..(Len(node.path) - 1)}

\* skipNeighbour looking the neighbour up among the objects before the current
\* one only, so that the current object is not skipped
skipNeighbourVisitedOnly(currentNode, neighbour, alteredGraph) ==
    \/ \E i \in 1..(Len(currentNode.path) - 1) : currentNode.path[i] = neighbour
    \/ NumGt(alteredGraph[Last(currentNode.path)][neighbour], currentNode.budget)

\* skipNeighbour with ">=" for ">": a step that uses up the budget is skipped
skipNeighbourGe(currentNode, neighbour, alteredGraph) ==
    \/ InSeq(neighbour, currentNode.path)
    \/ ~ NumGt(currentNode.budget, alteredGraph[Last(currentNode.path)][neighbour])

\* the test of utils.py:372 that skips a neighbour
skipNeighbour(currentNode, neighbour, alteredGraph) ==
    \/ InSeq(neighbour, getPath(currentNode))
    \/ NumGt(alteredGraph[NodeObj(currentNode)][neighbour], currentNode.budget)

\* childNode with the step weight not taken off the budget
childNodeKeepBudget(currentNode, neighbour, alteredGraph) ==
    LET w == alteredGraph[Last(currentNode.path)][neighbour]
    IN  [path   |-> Append(currentNode.path, neighbour),
         cost   |-> NumAdd(currentNode.cost, w),
         budget |-> IF neighbour.identifier = <<"S", "D">>
                        THEN NumAdd(currentNode.budget, Num(neighbour.value))
                        ELSE currentNode.budget,
         score  |-> IF neighbour.identifier = <<"C">>
                        THEN currentNode.score + neighbour.value ELSE currentNode.score]

\* childNode with the value of any object added to the score
childNodeScoreAny(currentNode, neighbour, alteredGraph) ==
    LET w == alteredGraph[Last(currentNode.path)][neighbour]
    IN  [path   |-> Append(currentNode.path, neighbour),
         cost   |-> NumAdd(currentNode.cost, w),
         budget |-> IF neighbour.identifier = <<"S", "D">>
                        THEN NumAdd(NumSub(currentNode.budget, w), Num(neighbour.value))
                        ELSE NumSub(currentNode.budget, w),
         score  |-> currentNode.score + neighbour.value]

\* childNode with the value of a time-extension device not added to the budget
childNodeNoExtension(currentNode, neighbour, alteredGraph) ==
    LET w == alteredGraph[Last(currentNode.path)][neighbour]
    IN  [path   |-> Append(currentNode.path, neighbour),
         cost   |-> NumAdd(currentNode.cost, w),
         budget |-> NumSub(currentNode.budget, w),
         score  |-> IF neighbour.identifier = <<"C">>
                        THEN currentNode.score + neighbour.value ELSE currentNode.score]

\* the node put on the queue for a neighbour that is not skipped
childNode(currentNode, neighbour, alteredGraph) ==
    LET w      == alteredGraph[NodeObj(currentNode)][neighbour]
        cost   == NumAdd(currentNode.cost, w)
        budget == NumSub(currentNode.budget, w)
    IN  DLSNode(getPath(currentNode), neighbour, cost,
                IF neighbour.identifier = IdSD
                    THEN NumAdd(budget, Num(neighbour.value)) ELSE budget,
                IF neighbour.identifier = IdC
                    THEN currentNode.score + neighbour.value ELSE currentNode.score)

\* the nodes put on the queue by the loop over the neighbours keys[i..]
RECURSIVE expandFrom(_, _, _, _)
expandFrom(currentNode, keys, i, alteredGraph) ==
    IF i > Len(keys) THEN <<>>
    ELSE (IF skipNeighbour(currentNode, keys[i], alteredGraph) THEN <<>>
          ELSE <<childNode(currentNode, keys[i], alteredGraph)>>)
         \o expandFrom(currentNode, keys, i + 1, alteredGraph)

\* updateMScores with ">=" for ">": a node of equal score replaces the entry
updateMScoresGe(table, currentNode) ==
    LET trajLen == NumAdd(currentNode.cost, currentNode.budget)
        entry   == <<currentNode.score, currentNode.path>>
    IN  IF trajLen \notin DOMAIN table THEN (trajLen :> entry) @@ table
        ELSE IF currentNode.score >= table[trajLen][1]
             THEN [table EXCEPT ![trajLen] = entry]
             ELSE table

\* mScores after the comparison of currentNode with the entry of its length
updateMScores(table, currentNode) ==
    LET trajLen == getTrajLen(currentNode)
        entry   == <<currentNode.score, getPath(currentNode)>>
    IN  IF trajLen \notin DOMAIN table THEN (trajLen :> entry) @@ table
        ELSE IF currentNode.score > table[trajLen][1]
             THEN [table EXCEPT ![trajLen] = entry]
             ELSE table

\* getMScores up to its loop: the locals, or None when findAll("A", grid)[0]
\* raises IndexError
searchStart(g, limit) ==
    LET nonObstacles == nonObstaclesOf(g)
        agents       == findAll(IdA, g)
        first        == convertToGraph(g)
    IN  IF agents = <<>> THEN None
        ELSE [initialGraph |-> first,
              graphs  |-> [s \in SUBSET SeqSet(nonObstacles) |->
                              IF s = {} THEN first ELSE None],
              q       |-> <<DLSNode(<<>>, agents[1], Num(0), limit, 0)>>,
              mScores |-> <<>>]

\* graphs after "graphs[currentNode.getVisited()] = alteredGraph" without the
\* assignment
storeGraphNot(cache, visited, alteredGraph) == cache

\* graphs after "graphs[currentNode.getVisited()] = alteredGraph"
storeGraph(cache, visited, alteredGraph) == [cache EXCEPT ![visited] = alteredGraph]

\* the queue after q.put of each of the nodes, were the queue last-in first-out
putAllFront(queue, nodes) == nodes \o queue

\* the queue after q.put of each of the nodes in turn: queue.Queue is FIFO
putAll(queue, nodes) == queue \o nodes

\* one iteration of the loop of getMScores, on the locals st; alteredGrid is
\* what omitFromGrid(grid, currentNode.getVisited()) returns if it is called
searchIterWith(g, st, alteredGrid) ==
    LET currentNode == Head(st.q)
        keys        == nonObstaclesOf(g)
        visited     == getVisited(currentNode)
    IN  TheOnly({ [initialGraph |-> st.initialGraph,
                   graphs  |-> IF st.graphs[visited] = None
                               THEN storeGraph(st.graphs, visited, alteredGraph)
                               ELSE st.graphs,
                   q       |-> putAll(Tail(st.q), expandFrom(currentNode, keys, 1, alteredGraph)),
                   mScores |-> updateMScores(st.mScores, currentNode)] :
                  alteredGraph \in { IF st.graphs[visited] = None
                                     THEN convertToGraph(alteredGrid)
                                     ELSE st.graphs[visited] } })

searchIter(g, st) == searchIterWith(g, st, omitFromGrid(g, getVisited(Head(st.q))))

RECURSIVE searchLoop(_, _)
searchLoop(g, st) ==
    IF st.q = <<>> THEN st.mScores
    ELSE TheOnly({ searchLoop(g, next) : next \in {searchIter(g, st)} })

\* the table getMScores returns for a grid with an agent
getMScores(g, limit) == searchLoop(g, searchStart(g, limit))

----------------------------------------------------------------------------
(* The inputs: bounded families of grids and episode lengths               *)

MaxLimit   == 3    \* default episode lengths 0 .. MaxLimit
MaxTiles   == 4    \* grids of Spec: every W x H with H <= W and W * H <= MaxTiles
SquareSide == 3    \* grids of SpecSquare: SquareSide x SquareSide
MaxWalls   == 2    \* walls of a grid of SpecSquare
MaxObjects == 1    \* coins and devices of a grid of SpecSquare

\* the coins and time-extension devices placed in the grids
ObjectTiles == {<<"C", "1">>, <<"C", "5">>, <<"S", "D", "2">>}

Limits == {Num(n) : n \in 0..MaxLimit}

TilesOf(w, h) == (0..(w - 1)) \X (0..(h - 1))

\* the list of columns whose tile (x, y) is content[<<x, y>>]
MkGrid(w, h, content) == [x \in 1..w |-> [y \in 1..h |-> content[<<x - 1, y - 1>>]]]

\* every w x h grid with one agent and any other tile free, wall or object
AnyGrids(w, h) ==
    UNION { { MkGrid(w, h, (a :> IdA) @@ rest) :
                rest \in [TilesOf(w, h) \ {a} -> {EmptyTile, WallTile} \cup ObjectTiles] } :
            a \in TilesOf(w, h) }

\* every w x h grid with one agent, at most nw walls and at most no objects
FewGrids(w, h, nw, no) ==
    UNION { UNION { UNION { { MkGrid(w, h, (a :> IdA) @@ objs
                                           @@ [t \in ws |-> WallTile]
                                           @@ [t \in TilesOf(w, h) |-> EmptyTile]) :
                                objs \in [os -> ObjectTiles] } :
                            os \in {s \in SUBSET (TilesOf(w, h) \ ({a} \cup ws)) :
                                        Cardinality(s) <= no} } :
                    ws \in {s \in SUBSET (TilesOf(w, h) \ {a}) : Cardinality(s) <= nw} } :
            a \in TilesOf(w, h) }

SmallGrids ==
    UNION { AnyGrids(d[1], d[2]) :
            d \in {e \in (1..MaxTiles) \X (1..MaxTiles) :
                        e[2] <= e[1] /\ e[1] * e[2] <= MaxTiles} }

SquareGrids == FewGrids(SquareSide, SquareSide, MaxWalls, MaxObjects)

----------------------------------------------------------------------------
(* getMScores as a state machine: one step per loop iteration              *)

IdleAStar == binGrid = None /\ start = None /\ end = None /\ astar = None

IdleTrial == trial = None /\ numButtons = None

IdleFile == fileEpLen = None /\ file = None /\ parsed = None

IdlePrune == pruned = None

\* getMScores(grid, defaultLimit) has been called
SearchCalled(grids) ==
    /\ grid \in grids
    /\ defaultLimit \in Limits
    /\ pc = "called"
    /\ initialGraph = None /\ graphs = None /\ q = None /\ mScores = None
    /\ cacheLog = None
    /\ IdleAStar
    /\ IdleTrial
    /\ IdleFile
    /\ IdlePrune

Init == SearchCalled(SmallGrids)

InitSquare == SearchCalled(SquareGrids)

\* utils.py:315-330, or the IndexError of findAll("A", grid)[0]
Start ==
    /\ pc = "called"
    /\ IF findAll(IdA, grid) = <<>>
       THEN /\ pc' = "IndexError"
            /\ UNCHANGED <<initialGraph, graphs, q, mScores, cacheLog>>
       ELSE LET st == searchStart(grid, defaultLimit)
            IN  /\ pc' = "loop"
                /\ initialGraph' = st.initialGraph
                /\ graphs' = st.graphs
                /\ q' = st.q
                /\ mScores' = st.mScores
                /\ cacheLog' = [s \in DOMAIN st.graphs |->
                                   [builds |-> IF s = {} THEN 1 ELSE 0, askedBy |-> {}]]
    /\ UNCHANGED <<grid, defaultLimit, binGrid, start, end, astar, trial, numButtons,
                   fileEpLen, file, parsed, pruned>>

\* utils.py:336-385: one iteration of "while not q.empty()"
Dequeue ==
    /\ pc = "loop"
    /\ q # <<>>
    /\ \E order \in Orders(getVisited(Head(q))) :
          LET visited == getVisited(Head(q))
              build   == graphs[visited] = None
              st == searchIterWith(grid, [initialGraph |-> initialGraph, graphs |-> graphs,
                                          q |-> q, mScores |-> mScores],
                                   omitFromGridIn(grid, order))
          IN  /\ graphs' = st.graphs
              /\ q' = st.q
              /\ mScores' = st.mScores
              /\ grid' = IF build THEN omitFromGridBase(grid, order) ELSE grid
              /\ cacheLog' = [cacheLog EXCEPT ![visited] =
                                 [builds  |-> IF build THEN @.builds + 1 ELSE @.builds,
                                  askedBy |-> @.askedBy \cup
                                              {SubSeq(Head(q).path, 1, Len(Head(q).path) - 1)}]]
    /\ UNCHANGED <<defaultLimit, pc, initialGraph, binGrid, start, end, astar, trial, numButtons,
                   fileEpLen, file, parsed, pruned>>

\* utils.py:389: the queue is empty, mScores is returned
Return ==
    /\ pc = "loop"
    /\ q = <<>>
    /\ pc' = "returned"
    /\ UNCHANGED <<grid, defaultLimit, initialGraph, graphs, q, mScores,
                   binGrid, start, end, astar, trial, numButtons, cacheLog, fileEpLen, file, parsed, pruned>>

Next == Start \/ Dequeue \/ Return

Spec == Init /\ [][Next]_vars

SpecSquare == InitSquare /\ [][Next]_vars

----------------------------------------------------------------------------
(* aStarSearch as a state machine: one step per loop iteration             *)

MaxBlocked == 2    \* blocked tiles of a binary grid of SpecAStar

\* every w x h binary grid with at most nb blocked tiles
BinGrids(w, h, nb) ==
    { MkGrid(w, h, [t \in TilesOf(w, h) |-> IF t \in bs THEN 1 ELSE 0]) :
        bs \in {s \in SUBSET TilesOf(w, h) : Cardinality(s) <= nb} }

IdleSearch ==
    /\ grid = None /\ defaultLimit = None /\ initialGraph = None
    /\ graphs = None /\ q = None /\ mScores = None /\ cacheLog = None

\* aStarSearch(start, end, binGrid, getManhattanDist) has been called by
\* getDist, which clears the start and end tiles (utils.py:220-221)
InitAStar ==
    /\ binGrid \in BinGrids(SquareSide, SquareSide, MaxBlocked)
    /\ start \in TilesOf(SquareSide, SquareSide)
    /\ end \in TilesOf(SquareSide, SquareSide)
    /\ PyAt(PyAt(binGrid, start[1]), start[2]) = 0
    /\ PyAt(PyAt(binGrid, end[1]), end[2]) = 0
    /\ astar = aStarStart(start, end)
    /\ pc = "astar"
    /\ IdleSearch
    /\ IdleTrial
    /\ IdleFile
    /\ IdlePrune

\* utils.py:154-190: one iteration of "while pq", heappop returning any node
\* of least f
AStarIterate ==
    /\ pc = "astar"
    /\ astar.pq # {}
    /\ \E currentNode \in PopChoices(astar.pq) :
          astar' = aStarIter(astar, currentNode, end, binGrid)
    /\ pc' = IF astar'.ret # None THEN "astar_returned" ELSE "astar"
    /\ UNCHANGED <<grid, defaultLimit, initialGraph, graphs, q, mScores,
                   binGrid, start, end, trial, numButtons, cacheLog, fileEpLen, file, parsed, pruned>>

\* utils.py:192-195: the loop ended with no path found
AStarNoPath ==
    /\ pc = "astar"
    /\ astar.pq = {}
    /\ astar' = aStarNoPath(astar)
    /\ pc' = "astar_returned"
    /\ UNCHANGED <<grid, defaultLimit, initialGraph, graphs, q, mScores,
                   binGrid, start, end, trial, numButtons, cacheLog, fileEpLen, file, parsed, pruned>>

NextAStar == AStarIterate \/ AStarNoPath

SpecAStar == InitAStar /\ [][NextAStar]_vars

----------------------------------------------------------------------------
(* Feasible visit sequences, stated without the queue, the cache or the    *)
(* table of getMScores                                                     *)

\* the weight of the step from the last object of path to n, in the graph of
\* the grid with the objects before the last one removed
StepWeight(g, path, n) ==
    convertToGraph(omitFromGrid(g, {path[i] : i \in 1..(Len(path) - 1)}))[Last(path)][n]

ExtensionOf(obj) == IF obj.identifier = IdSD THEN obj.value ELSE 0

CoinValueOf(obj) == IF obj.identifier = IdC THEN obj.value ELSE 0

\* the feasible visit sequences that extend the feasible sequence v.path,
\* each with its cost, remaining budget and score
RECURSIVE FeasibleFrom(_, _)
FeasibleFrom(g, v) ==
    {v} \cup UNION { FeasibleFrom(g, [path   |-> Append(v.path, n),
                                      cost   |-> NumAdd(v.cost, StepWeight(g, v.path, n)),
                                      budget |-> NumAdd(NumSub(v.budget, StepWeight(g, v.path, n)),
                                                        Num(ExtensionOf(n))),
                                      score  |-> v.score + CoinValueOf(n)]) :
                     n \in {m \in SeqSet(nonObstaclesOf(g)) \ SeqSet(v.path) :
                               ~ NumGt(StepWeight(g, v.path, m), v.budget)} }

\* every feasible visit sequence of grid g under the episode length limit
Feasible(g, limit) ==
    FeasibleFrom(g, [path |-> <<findAll(IdA, g)[1]>>, cost |-> Num(0),
                     budget |-> limit, score |-> 0])

TrajLenOf(v) == NumAdd(v.cost, v.budget)

\* C1: the table returned by getMScores has as keys exactly the trajectory
\* lengths (cost + remaining budget) of the feasible visit sequences, and the
\* score stored at a key is the maximum score over the feasible visit
\* sequences of that trajectory length.
C1_TableIsMaxOverFeasible ==
    pc = "returned" =>
        LET F == Feasible(grid, defaultLimit)
        IN  /\ DOMAIN mScores = {TrajLenOf(v) : v \in F}
            /\ \A k \in DOMAIN mScores :
                  /\ \E v \in F : TrajLenOf(v) = k /\ v.score = mScores[k][1]
                  /\ \A v \in F : TrajLenOf(v) = k => v.score <= mScores[k][1]

\* a returned table with two keys, one of them reached by feasible sequences
\* of different scores, in a grid where removing a visited object changes a
\* weight
C1_Witness ==
    /\ pc = "returned"
    /\ Cardinality(DOMAIN mScores) >= 2
    /\ \E v1, v2 \in Feasible(grid, defaultLimit) :
          /\ TrajLenOf(v1) = TrajLenOf(v2)
          /\ 0 < v1.score /\ v1.score < v2.score
    /\ \E v \in Feasible(grid, defaultLimit) :
          /\ Len(v.path) >= 3
          /\ initialGraph[v.path[Len(v.path) - 1]][Last(v.path)] = MAXDIST

\* the search has passed its set-up: the queue and the table exist
Searching == pc \in {"loop", "returned"}

ScenarioAGrid == << <<IdA>>, <<EmptyTile>>, <<<<"C", "5">>>> >>
ScenarioALimit == Num(2)
ScenarioAPath == <<Object(IdA, 0, 0, 0), Object(IdC, 2, 0, 5)>>

ScenarioAReturned ==
    pc = "returned" /\ grid = ScenarioAGrid /\ defaultLimit = ScenarioALimit

\* C5 as stated: Scenario A returns {2: (5, [Agent, Coin5])} plus
\* {0: (0, [Agent])}.
C5_ScenarioA_AsStated ==
    ScenarioAReturned =>
        mScores = (Num(2) :> <<5, ScenarioAPath>>) @@ (Num(0) :> <<0, <<ScenarioAPath[1]>> >>)

\* C5: Scenario A returns exactly {2: (5, [Agent, Coin5])}; the root
\* node reports under key 2 as well, so there is no key 0.
C5_ScenarioA ==
    ScenarioAReturned => mScores = (Num(2) :> <<5, ScenarioAPath>>)

C5_Witness == ScenarioAReturned

SumSeq(s) == LET RECURSIVE sum(_)
                 sum(i) == IF i > Len(s) THEN 0 ELSE s[i] + sum(i + 1)
             IN  sum(1)

\* the sum of all coin values of a grid
SumOfCoins(g) == LET coins == findAll(IdC, g)
                 IN  SumSeq([i \in 1..Len(coins) |-> coins[i].value])

\* C6: the score of every table entry, and of every node on the queue, is at
\* least 0 and at most the sum of all coin values of the grid.
C6_ScoreBounds ==
    Searching =>
        /\ \A k \in DOMAIN mScores :
              0 <= mScores[k][1] /\ mScores[k][1] <= SumOfCoins(grid)
        /\ \A i \in 1..Len(q) : 0 <= q[i].score /\ q[i].score <= SumOfCoins(grid)

\* a table entry that collects every coin of a grid with two coins
C6_Witness ==
    /\ Searching
    /\ Len(findAll(IdC, grid)) >= 2
    /\ \E k \in DOMAIN mScores : mScores[k][1] = SumOfCoins(grid)

\* The loop of getMScores is never stopped from outside: a step that can be
\* taken is taken.  This is WF_vars(Next) with ENABLED <<Next>>_vars written
\* as the state predicate it equals, pc \in {"called", "loop"}: Start is
\* enabled exactly when pc = "called", and one of Dequeue and Return exactly
\* when pc = "loop".
Fairness == ([]<>(pc \notin {"called", "loop"})) \/ ([]<><<Next>>_vars)

FairSpec == Spec /\ Fairness

\* every node on the queue has a path without repeated object, so of at most
\* K objects (K the number of interactable objects of the grid)
C9_PathsBounded ==
    Searching =>
        \A i \in 1..Len(q) :
            /\ \A j, k \in 1..Len(q[i].path) : q[i].path[j] = q[i].path[k] => j = k
            /\ Len(q[i].path) <= Len(nonObstaclesOf(grid))

\* C9: the search terminates: no node on the queue repeats an object, and the
\* queue runs empty and getMScores returns.
C9_Terminates == []C9_PathsBounded /\ <>(pc = "returned")

\* the search returned after dequeuing a node that visits every object of a
\* grid with three objects besides the agent
C9_Witness ==
    /\ pc = "returned"
    /\ Len(nonObstaclesOf(grid)) = 4
    /\ \E k \in DOMAIN mScores : Len(mScores[k][2]) = 4

----------------------------------------------------------------------------
(* Routes inside the grid, stated without aStarSearch                      *)

\* the unblocked tiles of the W x H grid next to tile t
InsideNeighbours(t, bgrid) ==
    {n \in {<<t[1], t[2] - 1>>, <<t[1] + 1, t[2]>>, <<t[1], t[2] + 1>>, <<t[1] - 1, t[2]>>} :
        /\ 0 <= n[1] /\ n[1] < Len(bgrid)
        /\ 0 <= n[2] /\ n[2] < Len(bgrid[n[1] + 1])
        /\ bgrid[n[1] + 1][n[2] + 1] = 0}

NoRoute == 0 - 1

\* breadth-first layers: the tiles at d steps are frontier, those nearer seen
RECURSIVE LayerDist(_, _, _, _, _)
LayerDist(frontier, seen, d, e, bgrid) ==
    IF e \in frontier THEN d
    ELSE IF frontier = {} THEN NoRoute
    ELSE LayerDist((UNION {InsideNeighbours(t, bgrid) : t \in frontier}) \ (seen \cup frontier),
                   seen \cup frontier, d + 1, e, bgrid)

\* the length of a shortest four-directional route from s to e that stays
\* inside the grid and enters unblocked tiles only, or NoRoute
ShortestInside(s, e, bgrid) == LayerDist({s}, {}, 0, e, bgrid)

\* C2 as stated: whenever a route exists, aStarSearch returns the length of a
\* shortest route that stays inside the grid.
C2_AsStated ==
    (pc = "astar_returned" /\ ShortestInside(start, end, binGrid) # NoRoute) =>
        astar.ret[1] = Num(ShortestInside(start, end, binGrid))

\* C3 as stated: when no route inside the grid connects start to end,
\* aStarSearch returns MAXDIST and an empty path.
C3_AsStated ==
    (pc = "astar_returned" /\ ShortestInside(start, end, binGrid) = NoRoute) =>
        astar.ret = <<MAXDIST, <<>> >>

----------------------------------------------------------------------------
(* Objects enclosed by walls (Scenario C), on the grids of SpecSquare      *)

\* the binary grid with the walls, and nothing else, blocked
WallsOnly(g) == [x \in 1..Len(g) |-> [y \in 1..Len(g[x]) |->
                    IF g[x][y] = WallTile THEN 1 ELSE 0]]

\* the tile of obj cannot be left for the tile of any other object by a
\* route inside the grid that avoids the walls
WallSeparated(obj, g) ==
    \A other \in SeqSet(nonObstaclesOf(g)) \ {obj} :
        ShortestInside(ObjLoc(obj), ObjLoc(other), WallsOnly(g)) = NoRoute

\* C8 as stated: an object separated by walls from every other object has
\* every incident edge equal to MAXDIST in every graph built during the
\* search, and (unless it is the agent the search starts from) appears in no
\* exemplar path of the table.
C8_AsStated ==
    Searching =>
        \A obj \in SeqSet(nonObstaclesOf(grid)) :
            WallSeparated(obj, grid) =>
                /\ \A vs \in DOMAIN graphs :
                      (graphs[vs] # None /\ obj \in DOMAIN graphs[vs]) =>
                          \A n \in DOMAIN graphs[vs] \ {obj} : graphs[vs][obj][n] = MAXDIST
                /\ obj.identifier # IdA =>
                      \A k \in DOMAIN mScores : ~ InSeq(obj, mScores[k][2])

----------------------------------------------------------------------------
(* Grids without agent or with several agents                              *)

\* every w x h grid of tiles that are free, wall, object or agent
TokenGrids(w, h) ==
    { MkGrid(w, h, content) :
        content \in [TilesOf(w, h) -> {EmptyTile, WallTile, IdA} \cup ObjectTiles] }

MalformedGrids ==
    { g \in UNION { TokenGrids(d[1], d[2]) :
                    d \in {e \in (1..MaxTiles) \X (1..MaxTiles) :
                              e[2] <= e[1] /\ e[1] * e[2] <= MaxTiles} } :
        Len(findAll(IdA, g)) # 1 }

InitMalformed == SearchCalled(MalformedGrids)

SpecMalformed == InitMalformed /\ [][Next]_vars

\* C10 as stated: a grid with no agent or with more than one agent is
\* rejected before any search begins: no search node is created and no table
\* is returned.
C10_AsStated ==
    Len(findAll(IdA, grid)) # 1 =>
        /\ pc \in {"called", "IndexError"}
        /\ q = None
        /\ mScores = None

----------------------------------------------------------------------------
(* The generator's oracle: does a button add a trajectory length?          *)
(* (generateGrids.py:210-215, applied to a free tile of any grid)          *)

DELAYMIN == 2      \* generateGrids.py:56
MaxDelay == 3      \* button values DELAYMIN .. MaxDelay
RowLen     == 6    \* the single-row grids of SpecOracle are RowLen x 1
RowObjects == 2    \* coins and devices of a single-row grid

\* the grids a button is tried in
OracleGrids == SmallGrids \cup FewGrids(RowLen, 1, 0, RowObjects)

DigitChar(d) == <<"0", "1", "2", "3", "4", "5", "6", "7", "8", "9">>[d + 1]

\* f"{n}" for n >= 0
RECURSIVE FormatInt(_)
FormatInt(n) == IF n < 10 THEN <<DigitChar(n)>>
                ELSE FormatInt(n \div 10) \o <<DigitChar(n % 10)>>

\* directM(epLen, grid, quiet=True): the table of getMScores for the grid
directM(epLen, g) == getMScores(g, epLen)

\* copyGrid: a duplicate of the grid with the button f"SD{val}" at loc
withButton(g, loc, val) ==
    PySet(g, loc[1], PySet(PyAt(g, loc[1]), loc[2], IdSD \o FormatInt(val)))

\* the test of generateGrids.py:215
addsTrajectoryLength(epLen, g, copyGrid) ==
    Cardinality(DOMAIN directM(epLen, copyGrid)) > Cardinality(DOMAIN directM(epLen, g))

InitOracle ==
    /\ grid \in OracleGrids
    /\ defaultLimit \in Limits
    /\ pc = "trial"
    /\ trial = None /\ numButtons = None
    /\ initialGraph = None /\ graphs = None /\ q = None /\ mScores = None
    /\ cacheLog = None
    /\ IdleAStar
    /\ IdleFile
    /\ IdlePrune

\* generateGrids.py:205-215 for a button value and a free tile not next to
\* the agent
CompareWithButton ==
    /\ pc = "trial"
    /\ \E val \in DELAYMIN..MaxDelay :
       \E x \in 0..(Len(grid) - 1) :
       \E y \in 0..(Len(PyAt(grid, x)) - 1) :
          /\ PyAt(PyAt(grid, x), y) = EmptyTile
          /\ LET agent == findAll(IdA, grid)[1]
             IN  ~ (Abs(agent.x - x) + Abs(agent.y - y) <= 1)
          /\ LET copyGrid == withButton(grid, <<x, y>>, val)
             IN  trial' = [val |-> val, loc |-> <<x, y>>, copyGrid |-> copyGrid,
                           added |-> addsTrajectoryLength(defaultLimit, grid, copyGrid)]
    /\ pc' = "tried"
    /\ UNCHANGED <<grid, defaultLimit, initialGraph, graphs, q, mScores,
                   binGrid, start, end, astar, numButtons, cacheLog, fileEpLen, file,
                   parsed, pruned>>

NextOracle == CompareWithButton

SpecOracle == InitOracle /\ [][NextOracle]_vars

\* Scenario B for the coin: no feasible visit sequence of the grid without
\* the button holds the coin; the coin has a route inside the grid from the
\* agent, and the button's tile is on every such route; and with the button
\* some feasible visit sequence takes the button and later the coin.
ScenarioB(coin) ==
    LET agent  == findAll(IdA, grid)[1]
        button == Object(IdSD, trial.loc[1], trial.loc[2], trial.val)
        walls  == WallsOnly(grid)
        cut    == PySet(walls, trial.loc[1], PySet(PyAt(walls, trial.loc[1]), trial.loc[2], 1))
    IN  /\ \A v \in Feasible(grid, defaultLimit) : ~ InSeq(coin, v.path)
        /\ ShortestInside(ObjLoc(agent), ObjLoc(coin), walls) # NoRoute
        /\ ShortestInside(ObjLoc(agent), ObjLoc(coin), cut) = NoRoute
        /\ \E v \in Feasible(trial.copyGrid, defaultLimit) :
              \E i, j \in 1..Len(v.path) :
                  i < j /\ v.path[i] = button /\ v.path[j] = coin

\* C7 as stated: in Scenario B the table of the grid with the button has
\* strictly more keys than the table of the grid without it.
C7_ScenarioB_AsStated ==
    pc = "tried" =>
        \A coin \in SeqSet(findAll(IdC, grid)) : ScenarioB(coin) => trial.added

\* C7: in Scenario B, when the grid without the button holds no
\* time-extension device, the table of the grid with the button has strictly
\* more keys than the table of the grid without it.
C7_ScenarioB ==
    (pc = "tried" /\ findAll(IdSD, grid) = <<>>) =>
        \A coin \in SeqSet(findAll(IdC, grid)) : ScenarioB(coin) => trial.added

\* a trial in Scenario B in a grid without a time-extension device
C7_Witness ==
    /\ pc = "tried"
    /\ findAll(IdSD, grid) = <<>>
    /\ \E coin \in SeqSet(findAll(IdC, grid)) : ScenarioB(coin)

----------------------------------------------------------------------------
(* The grid argument, the cache of graphs and the order of set iteration   *)

\* the locals of getMScores in the current state
Locals == [initialGraph |-> initialGraph, graphs |-> graphs, q |-> q, mScores |-> mScores]

\* C11: no step changes a tile of the grid passed to getMScores, and a graph
\* stored in the cache is the same after any later step of the loop.
C11_GridNeverMutated ==
    [][ /\ grid' = grid
        /\ pc = "loop" =>
              \A s \in DOMAIN graphs : graphs[s] # None => graphs'[s] = graphs[s] ]_vars

\* a returned search that built the graph of a grid with two objects omitted
C11_Witness ==
    /\ pc = "returned"
    /\ \E s \in DOMAIN graphs :
          /\ Cardinality(s) >= 2
          /\ graphs[s] # None
          /\ omitFromGrid(grid, s) # grid

\* C13: a step of the loop of getMScores has one outcome, whatever the order
\* in which the frozenset of visited objects is iterated; so two runs on the
\* same grid and default episode length go through the same queues, caches
\* and tables and return the same table.
C13_Deterministic ==
    [][ (pc = "loop" /\ q # <<>>) =>
            \A order \in Orders(getVisited(Head(q))) :
                LET st == searchIterWith(grid, Locals, omitFromGridIn(grid, order))
                IN  /\ graphs' = st.graphs
                    /\ q' = st.q
                    /\ mScores' = st.mScores ]_vars

\* a returned table with two keys, from a search in which a graph was built
\* for a visited set that can be iterated in more than one order
C13_Witness ==
    /\ pc = "returned"
    /\ Cardinality(DOMAIN mScores) >= 2
    /\ \E s \in DOMAIN cacheLog : Cardinality(s) >= 2 /\ cacheLog[s].builds = 1

\* C17: during a search the graph of a visited set is built at most once, by
\* the first node dequeued with that set, and is then in the cache for every
\* later node with the same set; the graph of the empty set is initialGraph.
C17_BuiltAtMostOnce ==
    Searching =>
        /\ graphs[{}] = initialGraph
        /\ \A s \in DOMAIN cacheLog :
              /\ cacheLog[s].builds <= 1
              /\ cacheLog[s].askedBy # {} => graphs[s] # None
              /\ s # {} => (cacheLog[s].builds = 1 <=> cacheLog[s].askedBy # {})

\* a graph built once and used by nodes that visited the same objects in
\* different orders
C17_Witness ==
    /\ Searching
    /\ \E s \in DOMAIN cacheLog :
          /\ cacheLog[s].builds = 1
          /\ Cardinality(cacheLog[s].askedBy) >= 2

----------------------------------------------------------------------------
(* Grid files: the writer of generateGrids.py:329-337 and parseEnv.  A     *)
(* text is the sequence of its characters.                                 *)

MaxEpLen == 11     \* episode lengths 0 .. MaxEpLen are written to files

\* np.array(lists).T.tolist() for a rectangular list of lists
transpose(lists) ==
    [r \in 1..Len(lists[1]) |-> [c \in 1..Len(lists) |-> lists[c][r]]]

Max(S) == CHOOSE m \in S : \A n \in S : n <= m

\* [max(map(lambda s : len(s), col)) for col in grid]
columnWidths(g) == [x \in 1..Len(g) |-> Max({Len(g[x][y]) : y \in 1..Len(g[x])})]

Spaces(n) == [i \in 1..n |-> " "]

\* f"{c:^{width}}": c centred in width characters, the odd space on the right
centre(c, width) ==
    IF Len(c) >= width THEN c
    ELSE LET pad  == width - Len(c)
             left == pad \div 2
         IN  Spaces(left) \o c \o Spaces(pad - left)

\* the tokens i, i+1, ... of a row, each padded and followed by a space, and
\* the end of the line
RECURSIVE writeRow(_, _, _)
writeRow(row, widths, i) ==
    IF i > Len(row) THEN <<"\n">>
    ELSE centre(row[i], widths[i]) \o <<" ">> \o writeRow(row, widths, i + 1)

RECURSIVE writeRows(_, _, _)
writeRows(rows, widths, r) ==
    IF r > Len(rows) THEN <<>>
    ELSE writeRow(rows[r], widths, 1) \o writeRows(rows, widths, r + 1)

\* the text of the file written for (epLen, grid)
writeGridFile(n, g) ==
    FormatInt(n) \o <<"\n">> \o writeRows(transpose(g), columnWidths(g), 1)

IsSpace(c) == c \in {" ", "\n", "\t"}

\* the length of the line that text begins with, its "\n" included
RECURSIVE lineLen(_)
lineLen(text) ==
    IF text = <<>> THEN 0
    ELSE IF text[1] = "\n" THEN 1 ELSE 1 + lineLen(Tail(text))

\* file.readlines(): the lines of the text, each with its "\n"
RECURSIVE readlines(_)
readlines(text) ==
    IF text = <<>> THEN <<>>
    ELSE <<SubSeq(text, 1, lineLen(text))>>
         \o readlines(SubSeq(text, lineLen(text) + 1, Len(text)))

\* the length of the run of characters other than white space that line
\* begins with
RECURSIVE wordLen(_)
wordLen(line) ==
    IF line = <<>> \/ IsSpace(line[1]) THEN 0 ELSE 1 + wordLen(Tail(line))

\* line.split(): the runs of characters other than white space
RECURSIVE split(_)
split(line) ==
    IF line = <<>> THEN <<>>
    ELSE IF IsSpace(line[1]) THEN split(Tail(line))
         ELSE <<SubSeq(line, 1, wordLen(line))>>
              \o split(SubSeq(line, wordLen(line) + 1, Len(line)))

\* int(line) for decimal digits within white space
pyInt(line) == ParseInt(split(line)[1])

\* parseEnv without "grid = np.array(grid).T.tolist()"
parseEnvNoTranspose(text) ==
    LET lines == readlines(text)
    IN  <<pyInt(lines[1]), [i \in 1..(Len(lines) - 1) |-> split(lines[i + 1])]>>

\* parseEnv on a file with the text given: (epLen, grid)
parseEnv(text) ==
    LET lines == readlines(text)
        rows  == [i \in 1..(Len(lines) - 1) |-> split(lines[i + 1])]
    IN  <<pyInt(lines[1]), transpose(rows)>>

\* the grids written to files: every W x H with W * H <= MaxTiles
FileGrids ==
    UNION { AnyGrids(d[1], d[2]) :
            d \in {e \in (1..MaxTiles) \X (1..MaxTiles) : e[1] * e[2] <= MaxTiles} }

InitFile ==
    /\ grid \in FileGrids
    /\ fileEpLen \in 0..MaxEpLen
    /\ file = None /\ parsed = None
    /\ pc = "generated"
    /\ defaultLimit = None /\ initialGraph = None /\ graphs = None /\ q = None
    /\ mScores = None /\ cacheLog = None
    /\ IdleAStar
    /\ IdleTrial
    /\ IdlePrune

\* generateGrids.py:329-337 for one (seed, epLen, grid)
WriteFile ==
    /\ pc = "generated"
    /\ file' = writeGridFile(fileEpLen, grid)
    /\ pc' = "written"
    /\ UNCHANGED <<grid, defaultLimit, initialGraph, graphs, q, mScores, binGrid, start,
                   end, astar, trial, numButtons, cacheLog, fileEpLen, parsed, pruned>>

\* parseEnv(filepath) on the file written
ParseEnv ==
    /\ pc = "written"
    /\ parsed' = parseEnv(file)
    /\ pc' = "parsed"
    /\ UNCHANGED <<grid, defaultLimit, initialGraph, graphs, q, mScores, binGrid, start,
                   end, astar, trial, numButtons, cacheLog, fileEpLen, file, pruned>>

NextFile == WriteFile \/ ParseEnv

SpecFile == InitFile /\ [][NextFile]_vars

\* C12: parseEnv on the file the generator writes for (epLen, grid) returns
\* the same episode length and the same tile at every (column, row).
C12_RoundTrip ==
    pc = "parsed" => parsed = <<fileEpLen, grid>>

\* a parsed file of a grid of two columns and two rows, with a column whose
\* tokens differ in length, and an episode length of two digits
C12_Witness ==
    /\ pc = "parsed"
    /\ fileEpLen >= 10
    /\ Len(grid) >= 2 /\ Len(grid[1]) >= 2
    /\ \E x \in 1..Len(grid) : \E y1, y2 \in 1..Len(grid[x]) :
          Len(grid[x][y1]) + 2 <= Len(grid[x][y2])

----------------------------------------------------------------------------
(* The binary grid of a pair of objects                                    *)

\* the tile that grid[t[0]][t[1]] reads: a negative index counts from the end
TileRead(g, t) ==
    <<IF t[1] < 0 THEN Len(g) + t[1] ELSE t[1],
      IF t[2] < 0 THEN Len(PyAt(g, t[1])) + t[2] ELSE t[2]>>

\* the grids a graph has been built for
BuiltGrids == {omitFromGrid(grid, s) : s \in {vs \in DOMAIN graphs : graphs[vs] # None}}

\* in the binary grid getDist makes for (u, v) the tile of w is blocked, and
\* the path aStarSearch returns does not read it
KeptClearOf(g, u, v, w) ==
    LET bgrid == getDistBinGrid(ObjLoc(u), ObjLoc(v), g)
        path  == aStarSearch(ObjLoc(u), ObjLoc(v), bgrid)[2]
    IN  /\ PyAt(PyAt(bgrid, w.x), w.y) = 1
        /\ \A i \in 1..Len(path) : TileRead(g, path[i]) # ObjLoc(w)

\* C14 as stated: for every pair (u, v) of objects of a grid a graph is built
\* for, the tile of every other object, the agent included, is blocked and
\* off the path found.
C14_AsStated ==
    pc = "returned" =>
        \A g \in BuiltGrids :
            \A u, v \in SeqSet(nonObstaclesOf(g)) :
                u # v => \A w \in SeqSet(nonObstaclesOf(g)) \ {u, v} : KeptClearOf(g, u, v, w)

\* C14: for every pair (u, v) of objects of a grid a graph is built for, the
\* tile of every other coin or time-extension device is blocked and off the
\* path found, while the tile of the agent, when it is neither u nor v, is
\* free.
C14_OtherObjectsBlocked ==
    pc = "returned" =>
        \A g \in BuiltGrids :
            \A u, v \in SeqSet(nonObstaclesOf(g)) :
                u # v => \A w \in SeqSet(nonObstaclesOf(g)) \ {u, v} :
                            IF w.identifier = IdA
                            THEN PyAt(PyAt(getDistBinGrid(ObjLoc(u), ObjLoc(v), g), w.x), w.y) = 0
                            ELSE KeptClearOf(g, u, v, w)

\* a returned search on a grid where the path found for a pair of objects
\* goes over the agent's tile and a third coin or device is on the grid
C14_Witness ==
    /\ pc = "returned"
    /\ \E u, v, w \in SeqSet(nonObstaclesOf(grid)) :
          /\ Cardinality({u, v, w, findAll(IdA, grid)[1]}) = 4
          /\ InSeq(ObjLoc(findAll(IdA, grid)[1]),
                   aStarSearch(ObjLoc(u), ObjLoc(v),
                               getDistBinGrid(ObjLoc(u), ObjLoc(v), grid))[2])

----------------------------------------------------------------------------
(* The steps of the loop: the table update and the expansion               *)

\* C15: when a node is dequeued, the entries of the other keys stay; an
\* existing entry of the node's trajectory length stays as it is (score and
\* path) unless the node's score is strictly greater, and then becomes the
\* node's score and path.  So no stored score decreases and a stored path
\* changes only with a strictly greater score.
C15_ReplaceOnlyIfGreater ==
    [][ (pc = "loop" /\ q # <<>>) =>
            LET node == Head(q)
                k    == NumAdd(node.cost, node.budget)
            IN  /\ \A j \in DOMAIN mScores :
                      /\ j \in DOMAIN mScores'
                      /\ j # k => mScores'[j] = mScores[j]
                      /\ mScores'[j][1] >= mScores[j][1]
                      /\ mScores'[j][2] # mScores[j][2] => mScores'[j][1] > mScores[j][1]
                /\ k \in DOMAIN mScores =>
                      IF node.score > mScores[k][1]
                      THEN mScores'[k] = <<node.score, node.path>>
                      ELSE mScores'[k] = mScores[k] ]_vars

\* a returned table with a key that two visit sequences reach with the score
\* stored, of which the table keeps one
C15_Witness ==
    /\ pc = "returned"
    /\ \E v1, v2 \in Feasible(grid, defaultLimit) :
          /\ v1.path # v2.path
          /\ TrajLenOf(v1) = TrajLenOf(v2)
          /\ v1.score = v2.score
          /\ v1.score > 0
          /\ mScores[TrajLenOf(v1)] = <<v1.score, v1.path>>

\* C16: the nodes a dequeued node puts on the queue are, one each, the
\* children for the objects n that are not on its path and whose edge weight
\* from the current object, in the graph of the grid without the visited
\* objects, is at most the budget; the child has the path extended by n, the
\* cost plus the weight, the budget minus the weight plus the extension of a
\* device, and the score plus the value of a coin.
C16_ChildrenSpawned ==
    [][ (pc = "loop" /\ q # <<>>) =>
            LET node    == Head(q)
                current == Last(node.path)
                graph   == convertToGraph(omitFromGrid(grid, getVisited(node)))
                spawned == SubSeq(q', Len(q), Len(q'))
                chosen  == {n \in SeqSet(nonObstaclesOf(grid)) \ SeqSet(node.path) :
                               ~ NumGt(graph[current][n], node.budget)}
                child(n) == [path   |-> Append(node.path, n),
                             cost   |-> NumAdd(node.cost, graph[current][n]),
                             budget |-> NumAdd(NumSub(node.budget, graph[current][n]),
                                               Num(ExtensionOf(n))),
                             score  |-> node.score + CoinValueOf(n)]
            IN  /\ SubSeq(q', 1, Len(q) - 1) = Tail(q)
                /\ SeqSet(spawned) = {child(n) : n \in chosen}
                /\ Len(spawned) = Cardinality(chosen) ]_vars

\* a queue holding a child made over an edge as long as the whole budget, to a
\* device whose extension is then all the child has left
C16_Witness ==
    /\ pc = "loop"
    /\ \E i \in 1..Len(q) :
          /\ Len(q[i].path) >= 3
          /\ Last(q[i].path).identifier = IdSD
          /\ q[i].budget = Num(Last(q[i].path).value)
          /\ q[i].score > 0

\* C18 as stated: a graph built for a visited set has as vertices the agent
\* and the coins and devices not in the set, a weight for every pair, the
\* same both ways, and 0 from a vertex to itself.
C18_AsStated ==
    Searching =>
        \A s \in DOMAIN graphs :
            graphs[s] # None =>
                LET V == {findAll(IdA, grid)[1]}
                            \cup ((SeqSet(findAll(IdC, grid)) \cup SeqSet(findAll(IdSD, grid))) \ s)
                IN  /\ DOMAIN graphs[s] = V
                    /\ \A u \in V :
                          /\ DOMAIN graphs[s][u] = V
                          /\ graphs[s][u][u] = Num(0)
                          /\ \A v \in V : graphs[s][u][v] = graphs[s][v][u]

\* C18: a graph built for a visited set has as vertices the agent, coins and
\* devices not in the set (the agent itself is in every visited set but the
\* empty one), a weight for every pair, the same both ways, and 0 from a
\* vertex to itself.
C18_GraphComplete ==
    Searching =>
        \A s \in DOMAIN graphs :
            graphs[s] # None =>
                LET V == SeqSet(nonObstaclesOf(grid)) \ s
                IN  /\ DOMAIN graphs[s] = V
                    /\ \A u \in V :
                          /\ DOMAIN graphs[s][u] = V
                          /\ graphs[s][u][u] = Num(0)
                          /\ \A v \in V : graphs[s][u][v] = graphs[s][v][u]
                    /\ \A u, v \in V :
                          \/ graphs[s][u][v] = MAXDIST
                          \/ graphs[s][u][v].e10 = 0 /\ graphs[s][u][v].u >= 0

\* a graph built for a visited set that is not empty, with two vertices a
\* finite number of steps apart
C18_Witness ==
    /\ Searching
    /\ \E s \in DOMAIN graphs :
          /\ s # {}
          /\ graphs[s] # None
          /\ \E u, v \in DOMAIN graphs[s] :
                u # v /\ graphs[s][u][v] # MAXDIST /\ graphs[s][u][v] # Num(0)

----------------------------------------------------------------------------
(* Default episode lengths around MAXDIST                                  *)

MaxOver == 1       \* default episode lengths MAXDIST - MaxOver .. MAXDIST + MaxOver

HugeLimits == {NumAdd(MAXDIST, Num(d)) : d \in (0 - MaxOver)..MaxOver}

\* getMScores(grid, defaultLimit) has been called with a huge defaultLimit
InitHuge ==
    /\ grid \in SmallGrids
    /\ defaultLimit \in HugeLimits
    /\ pc = "called"
    /\ initialGraph = None /\ graphs = None /\ q = None /\ mScores = None
    /\ cacheLog = None
    /\ IdleAStar
    /\ IdleTrial
    /\ IdleFile
    /\ IdlePrune

SpecHuge == InitHuge /\ [][Next]_vars

\* the weight of the edge over which the node was reached from its parent
LastStepWeight(node) ==
    LET n == Len(node.path)
    IN  graphs[{node.path[i] : i \in 1..(n - 2)}][node.path[n - 1]][node.path[n]]

\* C19 as stated: no node on the queue was made over an edge whose weight is
\* MAXDIST, whatever the budget of its parent was.
C19_AsStated ==
    Searching =>
        \A i \in 1..Len(q) : Len(q[i].path) >= 2 => LastStepWeight(q[i]) # MAXDIST

----------------------------------------------------------------------------
(* Dominance pruning: the search rerun without a dominated node            *)

\* the nodes the loop of getMScores dequeues from the locals st on
RECURSIVE dequeuedFrom(_, _)
dequeuedFrom(g, st) ==
    IF st.q = <<>> THEN {}
    ELSE {Head(st.q)} \cup TheOnly({ dequeuedFrom(g, next) : next \in {searchIter(g, st)} })

IsPrefix(p, s) == Len(p) <= Len(s) /\ SubSeq(s, 1, Len(p)) = p

\* the loop of getMScores with the node of path banned, and so its
\* descendants, kept off the queue
RECURSIVE searchLoopWithout(_, _, _)
searchLoopWithout(g, st, banned) ==
    IF st.q = <<>> THEN st.mScores
    ELSE LET kept(n) == ~ IsPrefix(banned, n.path)
         IN  TheOnly({ searchLoopWithout(g, [next EXCEPT !.q = SelectSeq(next.q, kept)], banned) :
                         next \in {searchIter(g, st)} })

\* a dominates b: another node at the same object with the same visited set,
\* no greater cost and no smaller budget
Dominates(a, b) ==
    /\ a # b
    /\ NodeObj(a) = NodeObj(b)
    /\ getVisited(a) = getVisited(b)
    /\ ~ NumGt(a.cost, b.cost)
    /\ ~ NumGt(b.budget, a.budget)

InitPrune ==
    /\ grid \in SmallGrids
    /\ defaultLimit \in Limits
    /\ pc = "prune"
    /\ pruned = None
    /\ initialGraph = None /\ graphs = None /\ q = None /\ mScores = None
    /\ cacheLog = None
    /\ IdleAStar
    /\ IdleTrial
    /\ IdleFile

\* the search of the grid is run again without a node b that a node a
\* dominates
PruneDominated ==
    /\ pc = "prune"
    /\ \E a, b \in dequeuedFrom(grid, searchStart(grid, defaultLimit)) :
          /\ Dominates(a, b)
          /\ pruned' = [a |-> a, b |-> b,
                        table |-> searchLoopWithout(grid, searchStart(grid, defaultLimit), b.path)]
    /\ pc' = "pruned"
    /\ UNCHANGED <<grid, defaultLimit, initialGraph, graphs, q, mScores, binGrid, start,
                   end, astar, trial, numButtons, cacheLog, fileEpLen, file, parsed>>

NextPrune == PruneDominated

SpecPrune == InitPrune /\ [][NextPrune]_vars

\* C20 as stated: the search without a dominated node returns the table of
\* the whole search: the same keys, scores and exemplar paths.
C20_AsStated ==
    pc = "pruned" => pruned.table = getMScores(grid, defaultLimit)

\* C20: the search without a dominated node returns a table with the keys of
\* the whole search and the same score at every key.
C20_SameKeysAndScores ==
    pc = "pruned" =>
        LET whole == getMScores(grid, defaultLimit)
        IN  /\ DOMAIN pruned.table = DOMAIN whole
            /\ \A k \in DOMAIN whole : pruned.table[k][1] = whole[k][1]

\* a search rerun without a node of strictly greater cost whose path was an
\* exemplar of the whole search
C20_Witness ==
    /\ pc = "pruned"
    /\ NumGt(pruned.b.cost, pruned.a.cost)
    /\ \E k \in DOMAIN getMScores(grid, defaultLimit) :
          getMScores(grid, defaultLimit)[k][2] = pruned.b.path

\* ---------------------------------------------------------------------------
\* createGrid: the button-placement loop (generateGrids.py:202-217)
\* ---------------------------------------------------------------------------

MaxButtons  == 2    \* numButtons 0 .. MaxButtons
ButtonWalls == 1    \* walls of a grid the button loop starts from
ButtonTiles == 5    \* tiles of a grid the button loop starts from

\* the grid has one contiguous space: every tile that is not a wall has a
\* route from the agent (what the wall loop of createGrid keeps true)
oneContiguousSpace(g) ==
    LET agent == findAll(IdA, g)[1]
    IN  \A x \in 0..(Len(g) - 1) : \A y \in 0..(Len(PyAt(g, x)) - 1) :
            PyAt(PyAt(g, x), y) # WallTile =>
                ShortestInside(ObjLoc(agent), <<x, y>>, WallsOnly(g)) # NoRoute

\* the grids the loop starts from: an agent, walls, one contiguous space
ButtonGrids ==
    UNION { {g \in FewGrids(d[1], d[2], ButtonWalls, 0) : oneContiguousSpace(g)} :
            d \in {e \in (1..ButtonTiles) \X (1..ButtonTiles) :
                        e[2] <= e[1] /\ e[1] * e[2] <= ButtonTiles} }

\* epLen = max(epLen, 2)
ButtonLimits == {Num(n) : n \in 2..MaxLimit}

\* the test of generateGrids.py:208: the tile is free and not next to the agent
freeForButton(g, loc) ==
    /\ PyAt(PyAt(g, loc[1]), loc[2]) = EmptyTile
    /\ LET agent == findAll(IdA, g)[1]
       IN  ~ (Abs(agent.x - loc[1]) + Abs(agent.y - loc[2]) <= 1)

\* the grid written whatever the test of generateGrids.py:215 says
placeButtonUntested(g, loc, val, added) == withButton(g, loc, val)

\* generateGrids.py:211-216: the trial is made in a duplicate, and the grid
\* gets the button only when the test says it added a trajectory length
placeButton(g, loc, val, added) == IF added THEN withButton(g, loc, val) ELSE g

InitButtons ==
    /\ grid \in ButtonGrids
    /\ defaultLimit \in ButtonLimits
    /\ numButtons \in 0..MaxButtons
    /\ pc = "buttons"
    /\ trial = None
    /\ initialGraph = None /\ graphs = None /\ q = None /\ mScores = None
    /\ cacheLog = None
    /\ IdleAStar
    /\ IdleFile
    /\ IdlePrune

\* one iteration of the loop of generateGrids.py:203-217
TryButton ==
    /\ pc = "buttons"
    /\ numButtons > 0
    /\ \E val \in DELAYMIN..MaxDelay :
       \E x \in 0..(Len(grid) - 1) :
       \E y \in 0..(Len(PyAt(grid, 0)) - 1) :
          IF freeForButton(grid, <<x, y>>)
          THEN LET copyGrid == withButton(grid, <<x, y>>, val)
                   added    == addsTrajectoryLength(defaultLimit, grid, copyGrid)
               IN  /\ trial' = [val |-> val, loc |-> <<x, y>>, copyGrid |-> copyGrid,
                                added |-> added]
                   /\ grid' = placeButton(grid, <<x, y>>, val, added)
                   /\ numButtons' = IF added THEN numButtons - 1 ELSE numButtons
          ELSE /\ trial' = [val |-> val, loc |-> <<x, y>>, copyGrid |-> None,
                            added |-> FALSE]
               /\ UNCHANGED <<grid, numButtons>>
    /\ UNCHANGED <<defaultLimit, pc, initialGraph, graphs, q, mScores,
                   binGrid, start, end, astar, cacheLog, fileEpLen, file, parsed, pruned>>

\* the loop condition of generateGrids.py:203 fails
ButtonsPlaced ==
    /\ pc = "buttons"
    /\ numButtons = 0
    /\ pc' = "placed"
    /\ UNCHANGED <<grid, defaultLimit, initialGraph, graphs, q, mScores,
                   binGrid, start, end, astar, trial, numButtons, cacheLog, fileEpLen,
                   file, parsed, pruned>>

NextButtons == TryButton \/ ButtonsPlaced

SpecButtons == InitButtons /\ [][NextButtons]_vars

\* the number of distinct trajectory lengths of a grid
trajectoryLengths(epLen, g) == Cardinality(DOMAIN directM(epLen, g))

\* what C21 says of one step of the button loop
buttonStep ==
    /\ (pc = "buttons" /\ pc' = "buttons") =>
          IF trial'.copyGrid # None
                /\ trajectoryLengths(defaultLimit, trial'.copyGrid)
                      > trajectoryLengths(defaultLimit, grid)
          THEN grid' = trial'.copyGrid /\ numButtons' = numButtons - 1
          ELSE grid' = grid /\ numButtons' = numButtons
    /\ pc' = "placed" =>
          /\ numButtons' = 0
          /\ trajectoryLengths(defaultLimit, grid') >= Len(findAll(IdSD, grid')) + 1

\* C21: an iteration of the button loop changes the grid only by writing the
\* trial button, and only when the table of the grid with the button has
\* strictly more keys than the table of the grid without it, and then one
\* button fewer is left to place; a rejected trial leaves the grid and the
\* count as they were; and when the loop has ended the grid's table has at
\* least one key more than the buttons asked for, all of which are in the grid.
C21_ButtonAddsLength == [][buttonStep]_vars

\* the loop has ended with two buttons placed, and the button placed last
\* was not within reach of the agent before the first was placed
C21_Witness ==
    /\ pc = "placed"
    /\ Len(findAll(IdSD, grid)) = MaxButtons
    /\ trial.added
    /\ LET agent == findAll(IdA, grid)[1]
       IN  NumGt(Num(Abs(agent.x - trial.loc[1]) + Abs(agent.y - trial.loc[2])),
                 defaultLimit)

\* ---------------------------------------------------------------------------
\* Trajectory lengths and extension amounts
\* ---------------------------------------------------------------------------

\* the sum of the extension amounts of the time-extension devices on a path
ExtensionsOn(path) == SumSeq([i \in 1..Len(path) |-> ExtensionOf(path[i])])

\* the sums of the extension amounts over the subsets of the devices of a grid
SubsetExtensions(g) ==
    LET devices == findAll(IdSD, g)
    IN  { SumSeq([i \in 1..Len(devices) |-> IF i \in s THEN devices[i].value ELSE 0]) :
          s \in SUBSET (1..Len(devices)) }

CoinsOn(path) == SumSeq([i \in 1..Len(path) |-> CoinValueOf(path[i])])

TieTiles == {<<"C", "1">>, <<"C", "2">>, <<"C", "3">>, <<"S", "D", "2">>}

\* every grid of up to MaxTiles tiles with one agent and any other tile free
\* or one of TieTiles
TieGrids ==
    UNION { UNION { { MkGrid(d[1], d[2], (a :> IdA) @@ rest) :
                        rest \in [TilesOf(d[1], d[2]) \ {a} -> {EmptyTile} \cup TieTiles] } :
                    a \in TilesOf(d[1], d[2]) } :
            d \in {e \in (1..MaxTiles) \X (1..MaxTiles) :
                        e[2] <= e[1] /\ e[1] * e[2] <= MaxTiles} }

InitTies == SearchCalled(TieGrids)

SpecTies == InitTies /\ [][Next]_vars

\* the feasible visit sequences of the grid that have the trajectory length L
\* and the score stored for L in the table
AttainingMax(table, L) ==
    {v \in Feasible(grid, defaultLimit) : TrajLenOf(v) = L /\ v.score = table[L][1]}

\* what C24 says of one step of the search
fifoStep ==
    /\ (pc = "loop" /\ q # <<>> /\ q' # <<>>) =>
          Len(getPath(Head(q'))) >= Len(getPath(Head(q)))
    /\ (pc = "loop" /\ q # <<>>) =>
          LET currentNode == Head(q)
              L           == getTrajLen(currentNode)
              final       == getMScores(grid, defaultLimit)
          IN  (/\ currentNode.score = final[L][1]
               /\ L \in DOMAIN mScores => mScores[L][1] < currentNode.score)
                  => final[L][2] = getPath(currentNode)
    /\ pc' = "returned" =>
          \A L \in DOMAIN mScores' :
              \A v \in AttainingMax(mScores', L) : Len(mScores'[L][2]) <= Len(v.path)

\* C24: the nodes are dequeued in non-decreasing order of the number of
\* objects on their path; the first node dequeued with the score that is
\* finally stored for its trajectory length is the one whose path is finally
\* stored for it; and in the returned table the path stored for a trajectory
\* length has the fewest objects among the feasible visit sequences of that
\* length that attain the stored score.
C24_FirstAndFewest == [][fifoStep]_vars

\* a returned table in which the score stored for a trajectory length is
\* attained by a feasible visit sequence of more objects than the stored path
C24_Witness ==
    /\ pc = "returned"
    /\ \E L \in DOMAIN mScores :
          \E v \in AttainingMax(mScores, L) : Len(v.path) > Len(mScores[L][2])
====
